---- MODULE Spec2Model ----
(***************************************************************************)
(* shop-detective: python-shop-detector/detect_shop.py and server.py.      *)
(*                                                                         *)
(* Strings that the keyword matcher inspects (captions, keywords, the raw  *)
(* --keywords argument) are sequences of one-character strings.  Texts     *)
(* handed to the Speaker are only ever tested for truthiness and are kept  *)
(* as TLA+ strings.  Times are integers in units of 1/UnitsPerSec second.  *)
(***************************************************************************)
EXTENDS Integers, Sequences, FiniteSets, TLC

VARIABLES
    entry,          \* which program runs: "detect_shop", "server", "speaker", "matcher"
    args,           \* parsed command line of detect_shop.py (keywords: which
                    \* of the --keywords values explored was given)
    m_pc,           \* position of the primary thread
    cap,            \* cv2.VideoCapture handle: "none", "open", "failed", "released"
    now,            \* main(): now (last value read from time.time())
    last_infer,     \* main(): last_infer
    last_spoken,    \* main(): last_spoken
    caption_text,   \* main(): caption_text
    status,         \* main(): status as rendered/printed at the end of the tick
    tk,             \* what the most recent webcam tick did
    queue,          \* Speaker._queue (utterances named by their enqueue index)
    lock,           \* holder of Speaker._lock: "none" or "worker" (say() takes
                    \* and releases it within one step)
    stop,           \* Speaker._stop
    w_pc,           \* position of Speaker._worker
    w_text,         \* _worker: text (0 stands for None)
    w_fault,        \* the utterance whose engine call raised, while the
                    \* except clause was the worker's most recent engine
                    \* outcome (0: none)
    said,           \* every say() so far: [text, at]
    delivered,      \* utterances passed to engine.say, in call order
    closed,         \* close() has returned
    response,       \* server.py: outcome of the most recent /detect request
    fn_in,          \* matcher harness: the arguments
    fn_out          \* matcher harness: the results

vars == <<entry, args, m_pc, cap, now, last_infer, last_spoken,
          caption_text, status, tk, queue, lock, stop, w_pc, w_text, w_fault,
          said, delivered, closed, response, fn_in, fn_out>>

mainVars    == <<args, cap, now, last_infer, last_spoken,
                 caption_text, status, tk>>
speakerVars == <<queue, lock, stop, w_pc, w_text, w_fault, said, delivered>>
workerVars  == <<w_pc, w_text, w_fault, delivered>>
fnVars      == <<fn_in, fn_out>>

(***************************************************************************)
(* Bounds                                                                  *)
(***************************************************************************)
MaxCaptionLen == 3      \* matcher harness: longest caption
MaxKeywordLen == 2      \* matcher harness: longest keyword
MaxKeywords   == 2      \* matcher harness: longest keyword sequence
MaxSays       == 3      \* number of say() calls explored on a bare Speaker
MaxSpoken     == 2      \* number of say() calls explored in main()
MaxTime       == 2      \* largest clock value explored
MaxInterval   == 2      \* largest --interval explored
MaxCooldown   == 2      \* largest --cooldown explored
UnitsPerSec   == 2      \* clock units per second

(***************************************************************************)
(* str.lower, str.strip, the `in` operator on strings                      *)
(***************************************************************************)
UpperCase == <<"A","B","C","D","E","F","G","H","I","J","K","L","M",
               "N","O","P","Q","R","S","T","U","V","W","X","Y","Z">>
LowerCase == <<"a","b","c","d","e","f","g","h","i","j","k","l","m",
               "n","o","p","q","r","s","t","u","v","w","x","y","z">>
Whitespace == {" ", "\t", "\n"}

LowerChar(c) ==
    IF \E i \in 1..26 : UpperCase[i] = c
    THEN LowerCase[CHOOSE i \in 1..26 : UpperCase[i] = c]
    ELSE c

lower(s) == [i \in 1..Len(s) |-> LowerChar(s[i])]

RECURSIVE lstrip(_)
lstrip(s) ==
    IF s = <<>> THEN <<>>
    ELSE IF Head(s) \in Whitespace THEN lstrip(Tail(s)) ELSE s

RECURSIVE rstrip(_)
rstrip(s) ==
    IF s = <<>> THEN <<>>
    ELSE IF s[Len(s)] \in Whitespace THEN rstrip(SubSeq(s, 1, Len(s) - 1)) ELSE s

strip(s) == rstrip(lstrip(s))

\* sub in s: scan the start positions left to right
RECURSIVE FindFrom(_, _, _)
FindFrom(sub, s, i) ==
    IF i + Len(sub) - 1 > Len(s) THEN FALSE
    ELSE IF SubSeq(s, i, i + Len(sub) - 1) = sub THEN TRUE
    ELSE FindFrom(sub, s, i + 1)

StrIn(sub, s) == FindFrom(sub, s, 1)

\* a generator without the filter
KeywordKeptAll(k) == TRUE

\* the filter of the generator: `if k.strip()`
KeywordKept(k) == strip(k) # <<>>

\* the needle of the generator: k.strip().lower()
KeywordNeedle(k) == lower(strip(k))

\* any(<needle> in low for k in keywords if <kept>), keywords from index i on
RECURSIVE AnyKeywordFrom(_, _, _)
AnyKeywordFrom(low, ks, i) ==
    IF i > Len(ks) THEN FALSE
    ELSE IF KeywordKept(ks[i]) /\ StrIn(KeywordNeedle(ks[i]), low) THEN TRUE
    ELSE AnyKeywordFrom(low, ks, i + 1)

\* detect_shop.py
contains_shop_word(caption, ks) ==
    LET low == lower(caption) IN AnyKeywordFrom(low, ks, 1)

\* server.py
RECURSIVE ServerAnyKeywordFrom(_, _, _)
ServerAnyKeywordFrom(low, ks, i) ==
    IF i > Len(ks) THEN FALSE
    ELSE IF strip(ks[i]) # <<>> /\ StrIn(lower(strip(ks[i])), low) THEN TRUE
    ELSE ServerAnyKeywordFrom(low, ks, i + 1)

server_contains_shop_word(caption, ks) ==
    LET low == lower(caption) IN ServerAnyKeywordFrom(low, ks, 1)

(***************************************************************************)
(* Module-level data                                                       *)
(***************************************************************************)
DEFAULT_KEYWORDS == <<
    <<"s","h","o","p">>,
    <<"s","t","o","r","e">>,
    <<"m","a","r","k","e","t">>,
    <<"s","u","p","e","r","m","a","r","k","e","t">>,
    <<"m","a","l","l">>,
    <<"b","o","u","t","i","q","u","e">>,
    <<"g","r","o","c","e","r","y">>,
    <<"b","a","k","e","r","y">>,
    <<"p","h","a","r","m","a","c","y">>,
    <<"b","o","o","k","s","t","o","r","e">>,
    <<"b","u","t","c","h","e","r">>,
    <<"r","e","t","a","i","l">>,
    <<"c","o","n","v","e","n","i","e","n","c","e">>,
    <<"o","u","t","l","e","t">>,
    <<"s","t","o","r","e","f","r","o","n","t">>,
    <<"v","e","n","d","o","r">>,
    <<"d","e","l","i">>>>

\* caption_text = "<captioning error>"
CaptionError == <<"<","c","a","p","t","i","o","n","i","n","g"," ","e","r","r","o","r",">">>

\* what the Caption Provider can do: raise, return something that is not a
\* non-empty list, or return a caption
Captions == {
    <<"a"," ","b","u","s","y"," ","o","u","t","d","o","o","r"," ","m","a","r","k","e","t">>,
    <<"a"," ","q","u","i","e","t"," ","f","o","r","e","s","t"," ","p","a","t","h">>,
    <<>>}
Outcomes == {[kind |-> "raise", text |-> <<>>], [kind |-> "nothing", text |-> <<>>]}
            \cup {[kind |-> "caption", text |-> c] : c \in Captions}

\* an override for --keywords
KeywordsOverride == <<"e","r","r","o","r",","," ","P","a","t","h"," ",",">>

(***************************************************************************)
(* class Speaker                                                           *)
(***************************************************************************)
\* --say: its default, and the empty string
SayDefault == "This is a shop"
SayTexts == {SayDefault, ""}

\* `if text:` for a str or None (None is 0, an utterance is its index in said)
Truthy(u) == u # 0 /\ said[u].text # ""

\* a pop() without the index removes the tail
PopIndexLast(q) == Len(q)

\* self._queue.pop(0): the index that is removed
PopIndex(q) == 1

PopRest(q) == [i \in 1..(Len(q) - 1) |-> IF i < PopIndex(q) THEN q[i] ELSE q[i + 1]]

\* where the thread that called close() goes when close() returns
AfterClose == IF entry = "speaker" THEN "client" ELSE "returned"

\* Speaker.say: with self._lock: self._queue.append(text)
SpeakerSay(text, at) ==
    /\ lock = "none"
    /\ queue' = Append(queue, Len(said) + 1)
    /\ said' = Append(said, [text |-> text, at |-> at])
    /\ UNCHANGED <<lock, stop, w_pc, w_text, w_fault, delivered>>

\* Speaker.close: self._stop = True
CloseSetStop ==
    /\ m_pc = "close"
    /\ stop' = TRUE
    /\ m_pc' = "close_engine"
    /\ UNCHANGED <<entry, mainVars, queue, lock, workerVars, said, closed,
                   response, fnVars>>

\* Speaker.close: self._engine.stop(), an exception is swallowed
CloseEngineStop ==
    /\ m_pc = "close_engine"
    /\ \E raised \in BOOLEAN :
        /\ closed' = TRUE
        /\ m_pc' = AfterClose
    /\ UNCHANGED <<entry, mainVars, speakerVars, response, fnVars>>

\* _worker: while not self._stop: text = None
WorkerTest ==
    /\ w_pc = "test"
    /\ IF stop
       THEN w_pc' = "done" /\ UNCHANGED w_text
       ELSE w_pc' = "lock" /\ w_text' = 0
    /\ UNCHANGED <<entry, mainVars, m_pc, queue, lock, stop, w_fault, said,
                   delivered, closed, response, fnVars>>

\* _worker: with self._lock (entry)
WorkerAcquire ==
    /\ w_pc = "lock"
    /\ lock = "none"
    /\ lock' = "worker"
    /\ w_pc' = "pop"
    /\ UNCHANGED <<entry, mainVars, m_pc, queue, stop, w_text, w_fault, said,
                   delivered, closed, response, fnVars>>

\* a worker that speaks inside the with block
LockHeldWhileSpeaking(truthy) == IF truthy THEN "worker" ELSE "none"

\* the with block ends after the pop, before `if text:`
LockAfterPop(truthy) == "none"

\* _worker: if self._queue: text = self._queue.pop(0); leave the with block;
\* if text: go on to the engine, else: time.sleep(0.05) and loop
WorkerPop ==
    /\ w_pc = "pop"
    /\ IF queue # <<>>
       THEN /\ w_text' = queue[PopIndex(queue)]
            /\ queue' = PopRest(queue)
       ELSE UNCHANGED <<w_text, queue>>
    /\ lock' = LockAfterPop(Truthy(w_text'))
    /\ w_pc' = IF Truthy(w_text') THEN "say" ELSE "test"
    /\ UNCHANGED <<entry, mainVars, m_pc, stop, w_fault, said, delivered, closed,
                   response, fnVars>>

\* _worker: self._engine.say(text), which may raise
WorkerEngineSay ==
    /\ w_pc = "say"
    /\ delivered' = Append(delivered, w_text)
    /\ \E raised \in BOOLEAN :
        /\ w_pc' = IF raised THEN "test" ELSE "run"
        /\ w_fault' = IF raised THEN w_text ELSE 0
    /\ UNCHANGED <<entry, mainVars, m_pc, queue, lock, stop, w_text, said,
                   closed, response, fnVars>>

\* _worker: self._engine.runAndWait() is entered
WorkerRunAndWait ==
    /\ w_pc = "run"
    /\ w_pc' = "speaking"
    /\ UNCHANGED <<entry, mainVars, m_pc, queue, lock, stop, w_text, w_fault,
                   said, delivered, closed, response, fnVars>>

\* _worker: runAndWait() returns or raises; the except clause only prints
WorkerSpoken ==
    /\ w_pc = "speaking"
    /\ \E raised \in BOOLEAN :
        /\ w_pc' = "test"
        /\ w_fault' = IF raised THEN w_text ELSE 0
    /\ UNCHANGED <<entry, mainVars, m_pc, queue, lock, stop, w_text, said,
                   delivered, closed, response, fnVars>>

Worker ==
    \/ WorkerTest
    \/ WorkerAcquire
    \/ WorkerPop
    \/ WorkerEngineSay
    \/ WorkerRunAndWait
    \/ WorkerSpoken

(***************************************************************************)
(* A thread that owns a Speaker and calls say() and close() in any order   *)
(***************************************************************************)
ClientSay ==
    /\ entry = "speaker"
    /\ m_pc = "client"
    /\ Len(said) < MaxSays
    /\ \E text \in SayTexts : SpeakerSay(text, 0)
    /\ UNCHANGED <<entry, mainVars, m_pc, closed, response, fnVars>>

ClientClose ==
    /\ entry = "speaker"
    /\ m_pc = "client"
    /\ m_pc' = "close"
    /\ UNCHANGED <<entry, mainVars, speakerVars, closed, response, fnVars>>

\* Speaker.__init__: empty queue, flag down, worker thread started
SpeakerInit ==
    /\ queue = <<>>
    /\ lock = "none"
    /\ stop = FALSE
    /\ w_pc = "test"
    /\ w_text = 0
    /\ w_fault = 0
    /\ said = <<>>
    /\ delivered = <<>>
    /\ closed = FALSE

NoArgs == [image |-> FALSE, cooldown |-> 0, interval |-> 0, keywords |-> "empty",
           say |-> "", no_window |-> FALSE]

\* tk before the first tick.  flip alternates on every tick; fault_at is the
\* time of the most recent inference if the Caption Provider raised in it,
\* and -1 otherwise; retried: this tick inferred and the previous inference
\* had raised; infer_at is the time of the tick that last called the Caption
\* Provider, -1 before the first call
NoTick == [flip |-> 0, ok |-> FALSE, inferred |-> FALSE, raised |-> FALSE,
           enqueued |-> FALSE, quit |-> FALSE, fault_at |-> -1,
           retried |-> FALSE, infer_at |-> -1]

\* the status string: its text, and N of "DETECTED (cooldown Ns)"
Status(label, wait) == [label |-> label, wait |-> wait]

\* a /detect outcome: "none" before any request, "error" for
\* {"error": "Invalid image"}, "result" for the four-key result, "exception"
\* when an exception leaves the handler
Response(kind, caption, is_shop, score, pun) ==
    [kind |-> kind, caption |-> caption, is_shop |-> is_shop,
     score |-> score, pun |-> pun]
NoResponse == Response("none", <<>>, FALSE, 0, 0)

MainIdle ==
    /\ args = NoArgs
    /\ cap = "none"
    /\ now = 0
    /\ last_infer = 0
    /\ last_spoken = 0
    /\ caption_text = <<>>
    /\ status = Status("READY", 0)
    /\ tk = NoTick
    /\ response = NoResponse

NoResult == [done |-> FALSE, detect_shop |-> FALSE, server |-> FALSE]

FnIdle ==
    /\ fn_in = [caption |-> <<>>, keywords |-> <<>>]
    /\ fn_out = NoResult

InitSpeaker ==
    /\ entry = "speaker"
    /\ m_pc = "client"
    /\ SpeakerInit
    /\ MainIdle
    /\ FnIdle

NextSpeaker ==
    \/ ClientSay
    \/ ClientClose
    \/ CloseSetStop
    \/ CloseEngineStop
    \/ Worker

SpecSpeaker == InitSpeaker /\ [][NextSpeaker]_vars

(***************************************************************************)
(* detect_shop.py: main()                                                  *)
(***************************************************************************)
\* ",".join(ks), from index i on
RECURSIVE JoinFrom(_, _)
JoinFrom(ks, i) ==
    IF i > Len(ks) THEN <<>>
    ELSE IF i = Len(ks) THEN ks[i]
    ELSE ks[i] \o <<",">> \o JoinFrom(ks, i + 1)

\* raw.split(","): the pieces between consecutive commas
Commas(raw) == {i \in 1..Len(raw) : raw[i] = ","}

NthComma(raw, k) ==
    CHOOSE i \in Commas(raw) : Cardinality({j \in Commas(raw) : j <= i}) = k

Split(raw) ==
    LET n == Cardinality(Commas(raw))
        edge(k) == IF k = 0 THEN 0
                   ELSE IF k = n + 1 THEN Len(raw) + 1
                   ELSE NthComma(raw, k)
    IN  [k \in 1..(n + 1) |-> SubSeq(raw, edge(k - 1) + 1, edge(k) - 1)]

\* [k.strip() for k in parts if k.strip()], from index i on
RECURSIVE StripKept(_, _)
StripKept(parts, i) ==
    IF i > Len(parts) THEN <<>>
    ELSE IF strip(parts[i]) # <<>>
         THEN <<strip(parts[i])>> \o StripKept(parts, i + 1)
         ELSE StripKept(parts, i + 1)

\* keywords = [k.strip() for k in args.keywords.split(",") if k.strip()]
ParseKeywords(raw) == StripKept(Split(raw), 1)

\* the values of --keywords explored: the default ",".join(DEFAULT_KEYWORDS),
\* an override, the empty string
KeywordArgs == {"default", "override", "empty"}
KeywordArg(which) ==
    IF which = "default" THEN JoinFrom(DEFAULT_KEYWORDS, 1)
    ELSE IF which = "override" THEN KeywordsOverride
    ELSE <<>>

\* main(): keywords, parsed once before the Speaker is created
ParsedKeywords == [which \in KeywordArgs |-> ParseKeywords(KeywordArg(which))]
keywords == ParsedKeywords[args.keywords]

ArgsSet == [image : BOOLEAN, cooldown : 0..MaxCooldown, interval : 0..MaxInterval,
            keywords : KeywordArgs, say : {SayDefault}, no_window : BOOLEAN]

\* the Caption Provider is not called
NoOutcome == [kind |-> "nothing", text |-> <<>>]

\* out[0].get("generated_text", "") if isinstance(out, list) and out else "";
\* "<captioning error>" in the except clause
CaptionOf(out) ==
    IF out.kind = "raise" THEN CaptionError
    ELSE IF out.kind = "nothing" THEN <<>>
    ELSE out.text

\* a loop that runs inference on every frame
InferDueAlways(t, last, interval) == TRUE

\* a gate that opens one clock unit early
InferDueEarly(t, last, interval) == t - last >= interval - 1

\* now - last_infer >= args.interval
InferDue(t, last, interval) == t - last >= interval

\* a gate that also lets through what is inside the cooldown
CooldownOverAlways(t, last, cooldown) == TRUE

\* now - last_spoken >= args.cooldown
CooldownOver(t, last, cooldown) == t - last >= cooldown

\* last_infer never moved
LastInferStale(out, t, last) == last

\* last_infer only moved when the Caption Provider returned
LastInferOnSuccess(out, t, last) == IF out.kind = "raise" THEN last ELSE t

\* last_infer = now, after the try/except
LastInferAfter(out, t, last) == t

\* last_spoken moved by every matching caption, spoken or not
LastSpokenOnMatch(speak, match, t, last) == IF match THEN t ELSE last

\* last_spoken = now, inside `if now - last_spoken >= args.cooldown` only
NewLastSpoken(speak, match, t, last) == IF speak THEN t ELSE last

\* caption_text and contains_shop_word(caption_text, keywords)
IsShopOf(caption, ks) == caption # <<>> /\ contains_shop_word(caption, ks)

\* IsShopOf, tabulated over the keyword lists and captions main() can hold
CaptionTexts == Captions \cup {CaptionError}
IsShopTable ==
    [which \in KeywordArgs |->
        [c \in CaptionTexts |-> IsShopOf(c, ParsedKeywords[which])]]
IsShop(caption) == IsShopTable[args.keywords][caption]

\* int(args.cooldown - (now - last_spoken)) on the cooldown branch, where the
\* argument is positive: the whole seconds in that many clock units
WaitLeft(t, last, cooldown) == (cooldown - (t - last)) \div UnitsPerSec

\* Speaker() has been created; main() reads args.image
InitMain ==
    /\ entry = "detect_shop"
    /\ m_pc = "start"
    /\ args \in ArgsSet
    /\ cap = "none"
    /\ now = 0
    /\ last_infer = 0
    /\ last_spoken = 0
    /\ caption_text = <<>>
    /\ status = Status("READY", 0)
    /\ tk = NoTick
    /\ response = NoResponse
    /\ SpeakerInit
    /\ FnIdle

\* single image mode, up to cv2.destroyAllWindows()
ImageMode ==
    /\ entry = "detect_shop"
    /\ m_pc = "start"
    /\ args.image
    /\ \E readable \in BOOLEAN :
       \E out \in IF readable THEN Outcomes ELSE {NoOutcome} :
        IF ~readable
        THEN /\ m_pc' = "close"
             /\ UNCHANGED <<caption_text, status, speakerVars>>
        ELSE /\ caption_text' = CaptionOf(out)
             /\ status' = IF IsShop(caption_text')
                          THEN Status("DETECTED SHOP", 0)
                          ELSE Status("NOT DETECTED", 0)
             /\ IF IsShop(caption_text')
                THEN SpeakerSay(args.say, 0)
                ELSE UNCHANGED speakerVars
             /\ m_pc' = "image_wait"
    /\ UNCHANGED <<entry, args, cap, now, last_infer, last_spoken, tk,
                   closed, response, fnVars>>

\* single image mode: time.sleep(0.25), then speaker.close() is called
ImageWait ==
    /\ m_pc = "image_wait"
    /\ m_pc' = "close"
    /\ UNCHANGED <<entry, mainVars, speakerVars, closed, response, fnVars>>

\* cap = cv2.VideoCapture(args.camera); if not cap.isOpened(): return
OpenCamera ==
    /\ entry = "detect_shop"
    /\ m_pc = "start"
    /\ ~args.image
    /\ \E opened \in BOOLEAN :
        IF opened
        THEN /\ cap' = "open"
             /\ m_pc' = "loop"
        ELSE /\ cap' = "failed"
             /\ m_pc' = "returned"
    /\ last_infer' = 0
    /\ last_spoken' = 0
    /\ caption_text' = <<>>
    /\ UNCHANGED <<entry, args, now, status, tk, speakerVars, closed,
                   response, fnVars>>

\* one iteration of `while True`
Tick ==
    /\ m_pc = "loop"
    /\ \E ok \in BOOLEAN :
       \E t \in IF ok THEN now..MaxTime ELSE {now} :
       \E out \in IF ok /\ InferDue(t, last_infer, args.interval)
                  THEN Outcomes ELSE {NoOutcome},
          key_q \in IF ok /\ ~args.no_window THEN BOOLEAN ELSE {FALSE} :
        IF ~ok
        THEN /\ m_pc' = "finally"
             /\ tk' = [tk EXCEPT !.flip = 1 - tk.flip, !.ok = FALSE,
                                 !.inferred = FALSE, !.raised = FALSE,
                                 !.enqueued = FALSE, !.quit = FALSE,
                                 !.retried = FALSE]
             /\ UNCHANGED <<now, last_infer, last_spoken, caption_text, status,
                            speakerVars>>
        ELSE LET infer   == InferDue(t, last_infer, args.interval)
                 caption == IF infer THEN CaptionOf(out) ELSE caption_text
                 match   == infer /\ IsShop(caption)
                 speak   == match /\ CooldownOver(t, last_spoken, args.cooldown)
                 quit    == ~args.no_window /\ key_q
             IN  /\ speak => Len(said) < MaxSpoken
                 /\ now' = t
                 /\ caption_text' = caption
                 /\ last_infer' = IF infer THEN LastInferAfter(out, t, last_infer)
                                  ELSE last_infer
                 /\ last_spoken' = NewLastSpoken(speak, match, t, last_spoken)
                 /\ IF speak
                    THEN /\ SpeakerSay(args.say, t)
                         /\ status' = Status("DETECTED SHOP", 0)
                    ELSE /\ UNCHANGED speakerVars
                         /\ status' = IF match
                                      THEN Status("DETECTED (cooldown",
                                             WaitLeft(t, last_spoken, args.cooldown))
                                      ELSE Status("READY", 0)
                 /\ tk' = [flip |-> 1 - tk.flip, ok |-> TRUE, inferred |-> infer,
                           raised |-> infer /\ out.kind = "raise",
                           enqueued |-> speak, quit |-> quit,
                           fault_at |-> IF infer
                                        THEN (IF out.kind = "raise" THEN t ELSE -1)
                                        ELSE tk.fault_at,
                           retried |-> infer /\ tk.fault_at >= 0,
                           infer_at |-> IF infer THEN t ELSE tk.infer_at]
                 /\ m_pc' = IF quit THEN "finally" ELSE "loop"
    /\ UNCHANGED <<entry, args, cap, closed, response, fnVars>>

\* finally: cap.release(); cv2.destroyAllWindows(); speaker.close() is called
Finally ==
    /\ m_pc = "finally"
    /\ cap' = "released"
    /\ m_pc' = "close"
    /\ UNCHANGED <<entry, args, now, last_infer, last_spoken,
                   caption_text, status, tk, speakerVars, closed, response,
                   fnVars>>

(***************************************************************************)
(* server.py: POST /detect                                                 *)
(***************************************************************************)
PUNS == 1..5
ShopScores  == 70..99
OtherScores == 0..40

InitServer ==
    /\ entry = "server"
    /\ m_pc = "serving"
    /\ MainIdle
    /\ SpeakerInit
    /\ FnIdle

\* contains_shop_word(caption, DEFAULT_KEYWORDS), tabulated over the captions
\* the Caption Provider returns
ServerMatchTable ==
    [c \in Captions |-> server_contains_shop_word(c, DEFAULT_KEYWORDS)]

\* a handler that stays silent right after a detection
IsShopAfterQuiet(caption, previous) ==
    /\ caption # <<>>
    /\ ServerMatchTable[caption]
    /\ ~previous.is_shop

\* is_shop = bool(caption) and contains_shop_word(caption, DEFAULT_KEYWORDS);
\* nothing of the previous response is read
DetectIsShop(caption, previous) ==
    /\ caption # <<>>
    /\ ServerMatchTable[caption]

\* detect(file): the response, or "exception" when one leaves the handler
Detect ==
    /\ entry = "server"
    /\ m_pc = "serving"
    /\ \E valid \in BOOLEAN :
       \E out \in IF valid THEN Outcomes ELSE {NoOutcome} :
        IF ~valid THEN response' = Response("error", <<>>, FALSE, 0, 0)
        ELSE IF out.kind = "raise"
             THEN response' = Response("exception", <<>>, FALSE, 0, 0)
        ELSE LET caption == CaptionOf(out)
                 is_shop == DetectIsShop(caption, response)
             IN  \E score \in IF is_shop THEN ShopScores ELSE OtherScores,
                    pun \in IF is_shop THEN PUNS ELSE {0} :
                    response' = Response("result", caption, is_shop, score, pun)
    /\ UNCHANGED <<entry, mainVars, m_pc, speakerVars, closed, fnVars>>

Init == InitMain \/ InitServer

Next ==
    \/ ImageMode
    \/ ImageWait
    \/ OpenCamera
    \/ Tick
    \/ Finally
    \/ CloseSetStop
    \/ CloseEngineStop
    \/ Worker
    \/ Detect

Spec == Init /\ [][Next]_vars

(***************************************************************************)
(* contains_shop_word applied to every caption and keyword sequence over  *)
(* small alphabets                                                         *)
(***************************************************************************)
CaptionAlphabet == {"a", "B"}
KeywordAlphabet == {"B", " "}
StrsUpTo(alphabet, n) == UNION {[1..k -> alphabet] : k \in 0..n}
KeywordSeqs ==
    UNION {[1..k -> StrsUpTo(KeywordAlphabet, MaxKeywordLen)] : k \in 0..MaxKeywords}

InitMatch ==
    /\ entry = "matcher"
    /\ m_pc = "call"
    /\ fn_in \in [caption : StrsUpTo(CaptionAlphabet, MaxCaptionLen),
                 keywords : KeywordSeqs]
    /\ fn_out = NoResult
    /\ MainIdle
    /\ SpeakerInit

CallMatcher ==
    /\ entry = "matcher"
    /\ m_pc = "call"
    /\ fn_out' = [done |-> TRUE,
                  detect_shop |-> contains_shop_word(fn_in.caption, fn_in.keywords),
                  server |-> server_contains_shop_word(fn_in.caption, fn_in.keywords)]
    /\ m_pc' = "done"
    /\ UNCHANGED <<entry, mainVars, speakerVars, closed, response, fn_in>>

NextMatch == CallMatcher

SpecMatch == InitMatch /\ [][NextMatch]_vars

(***************************************************************************)
(* Properties of the Speaker                                               *)
(***************************************************************************)
Removed == {u \in 1..Len(said) : \A i \in 1..Len(queue) : queue[i] # u}
Passed  == {delivered[i] : i \in 1..Len(delivered)}

\* a step in which the worker enters engine.say or engine.runAndWait
EngineInvocation ==
    \/ w_pc = "say" /\ w_pc' # "say"
    \/ w_pc = "run" /\ w_pc' = "speaking"

\* C1: the utterances passed to the Speech Engine appear in enqueue order,
\* and none of them is passed twice
C1_FifoDelivery ==
    \A i, j \in 1..Len(delivered) : i < j => delivered[i] < delivered[j]

\* C1: "B" is being spoken after "A" while "C", enqueued behind them, waits
C1_Witness ==
    /\ delivered = <<1, 2>>
    /\ w_pc = "speaking"
    /\ queue = <<3>>

\* C2: every utterance the worker has removed from the pending list has been
\* passed to the Speech Engine, or is the one it is about to pass
C2_RemovedIsPassed ==
    \A u \in Removed : u \in Passed \/ (w_pc = "say" /\ w_text = u)

\* C3: once close() has returned, the worker enters neither engine.say nor
\* engine.runAndWait
C3_NoEngineCallAfterClose == [][closed => ~EngineInvocation]_vars

\* a step in which engine.say or engine.runAndWait raises
EngineRaises == w_pc \in {"say", "speaking"} /\ w_pc' # w_pc /\ w_fault' # 0

\* a step in which the worker leaves the with block with a removed utterance
WorkerRemoves == w_pc = "pop" /\ w_pc' # "pop" /\ queue # <<>>

\* C15: when the Speech Engine raises, the worker goes on with its loop and
\* the pending list is as it was; and the utterance the worker removes next,
\* close() not having been called, is passed to the engine
C15_SpeechFailureIsolation ==
    [][/\ EngineRaises => w_pc' = "test" /\ queue' = queue
       /\ (WorkerRemoves /\ w_fault # 0 /\ ~stop) =>
              /\ w_text' = queue[1]
              /\ w_pc' = "say"
      ]_vars

\* the worker is about to call engine.say, is between engine.say and
\* engine.runAndWait, or is inside engine.runAndWait
InEngine == w_pc \in {"say", "run", "speaking"}

\* C14: the worker holds the queue lock only while it removes the head of the
\* pending list, so wherever it is in the Speech Engine calls the lock is
\* free, which is all say() waits for
C14_EnqueueNeverWaitsForAudio ==
    /\ lock = "worker" => w_pc = "pop"
    /\ InEngine => lock = "none"

\* C14: while the first utterance is being played the lock is free, and two
\* more utterances sit in the pending list
C14_Witness ==
    /\ w_pc = "speaking"
    /\ lock = "none"
    /\ delivered = <<1>>
    /\ queue = <<2, 3>>

(***************************************************************************)
(* Properties of the webcam loop, of main() and of /detect                 *)
(***************************************************************************)
\* a step that is one iteration of the webcam loop
TickStep == tk'.flip # tk.flip

\* C4: once something was enqueued at t0, a tick with now - t0 < cooldown
\* enqueues nothing, an inference tick with a matching caption and
\* now - t0 >= cooldown enqueues one utterance, and consecutive enqueues are
\* at least cooldown apart
C4_CooldownSuppression ==
    [][(TickStep /\ Len(said) >= 1) =>
        LET t0 == said[Len(said)].at IN
        /\ now' - t0 < args.cooldown => said' = said /\ queue' = queue
        /\ (tk'.inferred /\ IsShop(caption_text') /\ now' - t0 >= args.cooldown)
              => /\ Len(said') = Len(said) + 1
                 /\ said'[Len(said')].at = now'
                 /\ Len(queue') = Len(queue) + 1
        /\ \A i \in 2..Len(said') : said'[i].at - said'[i - 1].at >= args.cooldown
      ]_vars

\* C4: a second utterance was enqueued on this tick, a full non-zero cooldown
\* after the first
C4_Witness ==
    /\ Len(said) = 2
    /\ args.cooldown > 0
    /\ tk.enqueued
    /\ said[2].at = now
    /\ said[2].at - said[1].at >= args.cooldown

\* C5: the first tick runs inference, and while nothing has been spoken yet
\* an inference tick with a matching caption enqueues, whatever the interval,
\* the cooldown and the clock are
C5_FirstActionNeverGated ==
    [][(TickStep /\ tk'.ok) =>
        /\ tk = NoTick => tk'.inferred
        /\ (said = <<>> /\ tk'.inferred /\ IsShop(caption_text')) => tk'.enqueued
      ]_vars

\* C6: a tick on which the Caption Provider raises stores the error sentinel,
\* enqueues nothing, leaves last_spoken alone, has status "READY" and does
\* not end the loop
C6_FailureDoesNotSpeak ==
    [][(TickStep /\ tk'.raised) =>
        /\ caption_text' = CaptionError
        /\ said' = said
        /\ queue' = queue
        /\ last_spoken' = last_spoken
        /\ status' = Status("READY", 0)
        /\ m_pc' = IF tk'.quit THEN "finally" ELSE "loop"
      ]_vars

\* C7: a tick at t on which the Caption Provider raises sets last_infer to t
\* and does not end the loop; while that failure is the most recent
\* inference, a tick that reads a frame at now with now - t >= interval
\* calls the Caption Provider
C7_FailureIsolation ==
    [][TickStep =>
        /\ tk'.raised => /\ last_infer' = now'
                         /\ tk'.fault_at = now'
                         /\ m_pc' = IF tk'.quit THEN "finally" ELSE "loop"
        /\ (tk.fault_at >= 0 /\ tk'.ok /\ now' - tk.fault_at >= args.interval)
              => tk'.inferred
      ]_vars

\* C7: the Caption Provider is called again, an interval after it raised
C7_Witness ==
    /\ tk.retried
    /\ args.interval > 0
    /\ last_infer = now
    /\ m_pc = "loop"

\* C8: no caller lets a Caption Provider fault out: /detect answers with a
\* response, main() goes on to a status
C8_ProviderFaultsCaught ==
    /\ response.kind # "exception"
    /\ caption_text = CaptionError =>
          /\ m_pc \in {"loop", "finally", "image_wait", "close", "close_engine",
                       "returned"}
          /\ status.label \in {"READY", "NOT DETECTED", "DETECTED SHOP",
                               "DETECTED (cooldown"}

\* C9: when main() has returned, the camera handle (if one was created) is
\* released and Speaker.close() has been called and has set the stop flag
C9_StopCleanup ==
    (entry = "detect_shop" /\ m_pc = "returned") =>
        /\ cap \in {"none", "released"}
        /\ stop
        /\ closed

(***************************************************************************)
(* Properties of the keyword matcher                                       *)
(***************************************************************************)
\* d is the lower-case form of c
IsLowerOf(c, d) ==
    \/ \E i \in 1..26 : UpperCase[i] = c /\ LowerCase[i] = d
    \/ c = d /\ \A i \in 1..26 : UpperCase[i] # c

NonSpace(k) == {i \in 1..Len(k) : k[i] \notin Whitespace}

\* k without its leading and trailing whitespace
Trimmed(k) ==
    IF NonSpace(k) = {} THEN <<>>
    ELSE LET first == CHOOSE i \in NonSpace(k) : \A j \in NonSpace(k) : i <= j
             last  == CHOOSE i \in NonSpace(k) : \A j \in NonSpace(k) : j <= i
         IN  [i \in 1..(last - first + 1) |-> k[first + i - 1]]

\* lower-cased t occurs in lower-cased c
OccursIgnoringCase(t, c) ==
    \E a \in 0..(Len(c) - Len(t)) :
        \A j \in 1..Len(t) :
            \E x \in {LowerCase[i] : i \in 1..26} \cup KeywordAlphabet :
                IsLowerOf(t[j], x) /\ IsLowerOf(c[a + j], x)

Matches(c, ks) ==
    \E i \in 1..Len(ks) :
        /\ Trimmed(ks[i]) # <<>>
        /\ OccursIgnoringCase(Trimmed(ks[i]), c)

\* C10: contains_shop_word(C, K) is true iff some keyword of K, non-empty
\* after trimming, is trimmed and lower-cased a substring of lower-cased C;
\* an empty caption and an empty keyword sequence give false; the copy in
\* server.py returns the same
C10_KeywordMatcher ==
    fn_out.done =>
        /\ fn_out.detect_shop = Matches(fn_in.caption, fn_in.keywords)
        /\ fn_in.caption = <<>> => ~fn_out.detect_shop
        /\ fn_in.keywords = <<>> => ~fn_out.detect_shop
        /\ fn_out.server = fn_out.detect_shop

\* C10: a padded upper-case keyword is found in a lower-case caption, after
\* a keyword of blanks was skipped
C10_Witness ==
    /\ fn_out.done
    /\ fn_out.detect_shop
    /\ fn_in.caption = <<"a", "B">>
    /\ fn_in.keywords = << <<" ">>, <<" ", "B">> >>

(***************************************************************************)
(* Properties of /detect                                                   *)
(***************************************************************************)
\* C11: the is_shop of every /detect result is decided by that request's
\* caption alone (non-empty and containing a default keyword), so equal
\* captions get equal answers whatever was answered before
C11_DetectStateless ==
    response.kind = "result" =>
        response.is_shop = (/\ response.caption # <<>>
                            /\ Matches(response.caption, DEFAULT_KEYWORDS))

\* C11: a market caption is answered with is_shop
C11_Witness ==
    /\ response.kind = "result"
    /\ response.is_shop
    /\ Matches(response.caption, <<DEFAULT_KEYWORDS[3]>>)

(***************************************************************************)
(* Properties of the webcam loop's timestamps and status                   *)
(***************************************************************************)
\* C12: the tick times of two consecutive Caption Provider invocations of the
\* webcam loop are at least the configured interval apart
C12_InferenceRateCap ==
    [][(TickStep /\ tk'.inferred /\ tk.infer_at >= 0) =>
        now' - tk.infer_at >= args.interval]_vars

\* C12: with an interval of one unit the Caption Provider was called at 1 and
\* again at 2, and both calls led to an utterance
C12_Witness ==
    /\ args.interval = 1
    /\ tk.inferred
    /\ tk.infer_at = 2
    /\ Len(said) = 2
    /\ said[1].at = 1
    /\ said[2].at = 2

\* C13: a tick that enqueues an utterance sets last_spoken to that tick's now,
\* and every other tick (a detection inside the cooldown, a caption that does
\* not match or is empty, a tick without inference, a failed frame read)
\* leaves last_spoken as it was
C13_LastSpokenOnlyOnEnqueue ==
    [][TickStep =>
        /\ tk'.enqueued <=> (Len(said') = Len(said) + 1)
        /\ tk'.enqueued => last_spoken' = now'
        /\ ~tk'.enqueued => last_spoken' = last_spoken /\ said' = said
        /\ last_spoken' # last_spoken => tk'.enqueued
      ]_vars

\* C13: a matching caption was found inside the cooldown an utterance had
\* started, and last_spoken still is the time of that utterance
C13_Witness ==
    /\ tk.inferred
    /\ ~tk.enqueued
    /\ status.label = "DETECTED (cooldown"
    /\ Len(said) = 1
    /\ last_spoken = said[1].at
    /\ last_spoken > 0

\* the least number of whole seconds that is not less than `units` clock units
CeilSeconds(units) == (units + UnitsPerSec - 1) \div UnitsPerSec

\* C16: the number carried by the status "DETECTED (cooldown Ns)" is
\* ceil(cooldown - (now - last_spoken)) seconds, fractions of a second included
C16_CooldownStatusValue ==
    status.label = "DETECTED (cooldown" =>
        /\ 0 <= now - last_spoken
        /\ now - last_spoken < args.cooldown
        /\ status.wait = CeilSeconds(args.cooldown - (now - last_spoken))

\* C17: on a tick with now - last_infer < interval the Caption Provider is
\* not invoked, nothing is enqueued on the Speaker, and last_infer,
\* last_spoken and the stored caption are unchanged
C17_NoOpTickFrame ==
    [][(TickStep /\ now' - last_infer < args.interval) =>
        /\ ~tk'.inferred
        /\ tk'.infer_at = tk.infer_at
        /\ ~tk'.enqueued
        /\ said' = said
        /\ queue' = queue
        /\ last_infer' = last_infer
        /\ last_spoken' = last_spoken
        /\ caption_text' = caption_text
      ]_vars

\* C17: a tick found inference not due, after an earlier tick had stored a
\* caption
C17_Witness ==
    /\ tk.ok
    /\ ~tk.inferred
    /\ tk.infer_at >= 0
    /\ now - last_infer < args.interval
    /\ caption_text # <<>>

\* C18: a tick on which inference is not due renders the status of the tick
\* before it, and so, tick after tick, the status computed by the most recent
\* inference tick
C18_StatusPersistence ==
    [][(TickStep /\ tk'.ok /\ ~tk'.inferred /\ ~args.no_window) =>
        status' = status]_vars

\* C20: in every reachable state last_spoken <= last_infer <= now (so that
\* now - last_infer >= 0 and now - last_spoken >= 0), and no step decreases
\* last_infer or last_spoken
C20_TimestampInvariant ==
    /\ [](0 <= last_spoken /\ last_spoken <= last_infer /\ last_infer <= now)
    /\ [][last_infer' >= last_infer /\ last_spoken' >= last_spoken]_vars

\* C20: an utterance was enqueued, and a later tick ran inference again
C20_Witness ==
    /\ 0 < last_spoken
    /\ last_spoken < last_infer
    /\ last_infer <= now
    /\ Len(said) = 1
    /\ said[1].at = last_spoken

(***************************************************************************)
(* Properties of single image mode                                         *)
(***************************************************************************)
\* C19: in single image mode one utterance is enqueued iff the caption is
\* non-empty and matches, whatever interval and cooldown are; that utterance
\* has been passed to the Speech Engine when the Speaker is stopped; and the
\* run ends after close()
C19_SingleImageOneTick ==
    (entry = "detect_shop" /\ args.image /\ m_pc # "start") =>
        /\ Len(said) = (IF IsShop(caption_text) THEN 1 ELSE 0)
        /\ Len(queue) + Len(delivered) <= Len(said)
        /\ (stop /\ said # <<>>) => 1 \in Passed
        /\ m_pc = "returned" => closed
====
